---- MODULE Spec2Model ----
(***************************************************************************)
(* A model of the PyGoRP AI service (src/ai-service/main.py): the three    *)
(* POST handlers analyze_text, analyze_image and ml_prediction, the two    *)
(* GET handlers, and the mock computations analyze_sentiment,              *)
(* extract_keywords and generate_summary.                                  *)
(*                                                                         *)
(* A Python str is a sequence of one-character strings.  A Python float    *)
(* is an IEEE-754 binary64 value, kept as a sign and a magnitude; the      *)
(* magnitude is a natural number of units of 2^-FracBits written in        *)
(* limbs, least significant first, and every float operation rounds its    *)
(* exact result to MantBits significant bits, ties to even.  Optional[T]   *)
(* is a sequence of length 0 (None) or 1.                                  *)
(***************************************************************************)
EXTENDS Integers, Sequences, FiniteSets, TLC

VARIABLES
    now,        \* the wall clock read by datetime.utcnow()
    pc,         \* per request: "idle", the await it is suspended at, or "done"
    request,    \* per request: the body the handler was called with
    request_id, \* per request: the handler's local request_id
    start_time, \* per request: the handler's local start_time
    responses,  \* per request: the responses returned so far
    log,        \* the lines written by logger.error
    served      \* the payloads returned by the GET handlers

vars == <<now, pc, request, request_id, start_time, responses, log, served>>

(***************************************************************************)
(* Bounds of the model.                                                    *)
(***************************************************************************)
MaxRequests == 2
MaxClock == 1
MaxWords == 2
LongSlack == 1
FracLimbs == 4

None == <<>>
Some(x) == <<x>>
Min(a, b) == IF a <= b THEN a ELSE b
Max(a, b) == IF a >= b THEN a ELSE b

(***************************************************************************)
(* Natural numbers as sequences of limbs (digits in radix Base), least     *)
(* significant first, without leading zeros (zero is the empty sequence).  *)
(***************************************************************************)
LimbBits == 16
Base == 2^LimbBits

RECURSIVE NatToLimbs(_)
NatToLimbs(n) == IF n = 0 THEN <<>> ELSE <<n % Base>> \o NatToLimbs(n \div Base)

Trim(a) ==
    LET used == {i \in 1..Len(a) : a[i] /= 0}
    IN  IF used = {} THEN <<>>
        ELSE SubSeq(a, 1, CHOOSE i \in used : \A j \in used : j <= i)

Limb(a, i) == IF i >= 1 /\ i <= Len(a) THEN a[i] ELSE 0

Zeros(k) == [i \in 1..k |-> 0]

RECURSIVE AddFrom(_, _, _, _)
AddFrom(a, b, i, carry) ==
    IF i > Max(Len(a), Len(b))
    THEN IF carry = 1 THEN <<1>> ELSE <<>>
    ELSE LET s == Limb(a, i) + Limb(b, i) + carry
         IN  <<s % Base>> \o AddFrom(a, b, i + 1, s \div Base)

LimbsAdd(a, b) == AddFrom(a, b, 1, 0)

RECURSIVE SubFrom(_, _, _, _)
SubFrom(a, b, i, borrow) ==
    IF i > Len(a)
    THEN <<>>
    ELSE LET d == Limb(a, i) - Limb(b, i) - borrow
         IN  <<d % Base>> \o SubFrom(a, b, i + 1, IF d < 0 THEN 1 ELSE 0)

\* a - b for a >= b
LimbsSub(a, b) == Trim(SubFrom(a, b, 1, 0))

RECURSIVE LessFrom(_, _, _)
LessFrom(a, b, i) ==
    IF i = 0 THEN FALSE
    ELSE IF a[i] /= b[i] THEN a[i] < b[i]
    ELSE LessFrom(a, b, i - 1)

LimbsLess(a, b) ==
    IF Len(a) /= Len(b) THEN Len(a) < Len(b) ELSE LessFrom(a, b, Len(a))

\* The number of significant bits of a.
BitLen(a) ==
    IF a = <<>> THEN 0
    ELSE LimbBits * (Len(a) - 1)
         + CHOOSE k \in 1..LimbBits : 2^(k - 1) <= a[Len(a)] /\ a[Len(a)] < 2^k

\* Bit i of a, bit 0 the least significant.
BitAt(a, i) == (Limb(a, i \div LimbBits + 1) \div 2^(i % LimbBits)) % 2

\* The bits of a below bit n are all zero.
LowBitsZero(a, n) ==
    /\ \A l \in 1..(n \div LimbBits) : Limb(a, l) = 0
    /\ (Limb(a, n \div LimbBits + 1) % 2^(n % LimbBits)) = 0

\* a with the bits below bit n cleared.
ClearLow(a, n) ==
    Trim([l \in 1..Len(a) |->
            IF l <= n \div LimbBits THEN 0
            ELSE IF l = n \div LimbBits + 1 THEN a[l] - (a[l] % 2^(n % LimbBits))
            ELSE a[l]])

PowerOfTwo(n) == Zeros(n \div LimbBits) \o <<2^(n % LimbBits)>>

(***************************************************************************)
(* IEEE-754 binary64 arithmetic on magnitudes in units of 2^-FracBits.     *)
(* Exact for every value whose last significant bit is a multiple of       *)
(* 2^-FracBits: with FracBits = 64 that is every quotient p / w >= 2^-10.  *)
(***************************************************************************)
MantBits == 53
FracBits == LimbBits * FracLimbs

\* Round the natural number a (with `sticky` saying an inexact remainder lies
\* below its last bit) to MantBits significant bits, to nearest, ties to even.
RoundBits(a, sticky) ==
    IF BitLen(a) <= MantBits
    THEN a
    ELSE LET drop == BitLen(a) - MantBits
             half == BitAt(a, drop - 1) = 1
             rest == sticky \/ ~LowBitsZero(a, drop - 1)
             up   == half /\ (rest \/ BitAt(a, drop) = 1)
             kept == ClearLow(a, drop)
         IN  IF up THEN LimbsAdd(kept, PowerOfTwo(drop)) ELSE kept

Float(neg, mag) == [neg |-> neg /\ mag /= <<>>, mag |-> mag]

\* The quotient and remainder of the limbs dividend[1..i] by the small
\* natural number w, by long division from the most significant limb.
RECURSIVE DivFrom(_, _, _, _)
DivFrom(dividend, w, i, rem) ==
    IF i = 0
    THEN [limbs |-> <<>>, rem |-> rem]
    ELSE LET r    == rem * Base + dividend[i]
             rest == DivFrom(dividend, w, i - 1, r % w)
         IN  [limbs |-> rest.limbs \o <<r \div w>>, rem |-> rest.rem]

\* p / w for naturals p and w > 0: Python's int / int and a decimal literal
\* p/w both give the correctly rounded quotient.
FDiv(p, w) ==
    LET dividend == Zeros(FracLimbs) \o NatToLimbs(p)
        d == DivFrom(dividend, w, Len(dividend), 0)
    IN  Float(FALSE, RoundBits(Trim(d.limbs), d.rem /= 0))

FromInt(n) == Float(FALSE, IF n = 0 THEN <<>> ELSE Zeros(FracLimbs) \o NatToLimbs(n))

FNeg(x) == Float(~x.neg, x.mag)

FAdd(x, y) ==
    IF x.neg = y.neg
    THEN Float(x.neg, RoundBits(LimbsAdd(x.mag, y.mag), FALSE))
    ELSE IF LimbsLess(x.mag, y.mag)
         THEN Float(y.neg, RoundBits(LimbsSub(y.mag, x.mag), FALSE))
         ELSE Float(x.neg, RoundBits(LimbsSub(x.mag, y.mag), FALSE))

FSub(x, y) == FAdd(x, FNeg(y))

\* x * y for a natural number x and a float y: the exact product, rounded.
RECURSIVE TimesNat(_, _)
TimesNat(n, a) == IF n = 0 THEN <<>> ELSE LimbsAdd(a, TimesNat(n - 1, a))

FMulInt(n, y) == Float(y.neg, RoundBits(TimesNat(n, y.mag), FALSE))

FLess(x, y) ==
    IF x.neg /= y.neg THEN x.neg
    ELSE IF x.neg THEN LimbsLess(y.mag, x.mag)
    ELSE LimbsLess(x.mag, y.mag)

FLeq(x, y) == ~FLess(y, x)

\* Python's min(a, b): b only when b < a.
FMin(a, b) == IF FLess(b, a) THEN b ELSE a

(***************************************************************************)
(* Python str: the characters of the model, str.lower, str.split,          *)
(* str.join and the `in` test.                                             *)
(***************************************************************************)
Whitespace == {" ", "\n"}

LowerOf == [c \in {"B", "G", "L"} |-> CASE c = "B" -> "b" [] c = "G" -> "g" [] c = "L" -> "l"]

\* str.lower()
Lower(s) == [i \in 1..Len(s) |-> IF s[i] \in DOMAIN LowerOf THEN LowerOf[s[i]] ELSE s[i]]

\* str.split(): the maximal runs of non-whitespace characters, in order.
Split(s) ==
    LET inword(i) == i >= 1 /\ i <= Len(s) /\ s[i] \notin Whitespace
        index     == [i \in 1..Len(s) |-> i]
        starts    == SelectSeq(index, LAMBDA i : inword(i) /\ ~inword(i - 1))
        ends      == SelectSeq(index, LAMBDA i : inword(i) /\ ~inword(i + 1))
    IN  [k \in 1..Len(starts) |-> SubSeq(s, starts[k], ends[k])]

\* sep.join(words[lo..hi])
RECURSIVE JoinRange(_, _, _, _)
JoinRange(words, sep, lo, hi) ==
    IF lo > hi THEN <<>>
    ELSE IF lo = hi THEN words[lo]
    ELSE LET mid == (lo + hi) \div 2
         IN  JoinRange(words, sep, lo, mid) \o sep \o JoinRange(words, sep, mid + 1, hi)

\* sep.join(words)
Join(words, sep) == JoinRange(words, sep, 1, Len(words))

\* w in s
Contains(s, w) ==
    \E i \in 1..(Len(s) - Len(w) + 1) : SubSeq(s, i, i + Len(w) - 1) = w

(***************************************************************************)
(* Exceptions and the outcome of a call.                                   *)
(***************************************************************************)
Return(v) == [raised |-> FALSE, value |-> v]
Raise(e) == [raised |-> TRUE, exc |-> e]

ZeroDivisionError == [type |-> "ZeroDivisionError", args |-> <<"division by zero">>]

HTTPException(status_code, detail) ==
    [type |-> "HTTPException", status_code |-> status_code, detail |-> detail]

\* str(e): Starlette's HTTPException.__str__ gives "<status_code>: <detail>";
\* a built-in exception gives its message.
StrException(e) ==
    IF e.type = "HTTPException"
    THEN <<ToString(e.status_code), ": ">> \o e.detail
    ELSE e.args

(***************************************************************************)
(* The mock computations.                                                  *)
(***************************************************************************)
positive_words ==
    << <<"g","o","o","d">>, <<"g","r","e","a","t">>,
       <<"e","x","c","e","l","l","e","n","t">>, <<"a","m","a","z","i","n","g">>,
       <<"w","o","n","d","e","r","f","u","l">>, <<"l","o","v","e">> >>

negative_words ==
    << <<"b","a","d">>, <<"t","e","r","r","i","b","l","e">>,
       <<"a","w","f","u","l">>, <<"h","a","t","e">>,
       <<"w","o","r","s","t">>, <<"p","o","o","r">> >>

\* sum(1 for word in word_list if word in text_lower)
CountPresent(word_list, text_lower) ==
    Cardinality({i \in 1..Len(word_list) : Contains(text_lower, word_list[i])})

positive_count(text) == CountPresent(positive_words, Lower(text))
negative_count(text) == CountPresent(negative_words, Lower(text))

\* min(0.9, 0.5 + (count * 0.1))
DecidedConfidence(count) ==
    FMin(FDiv(9, 10), FAdd(FDiv(5, 10), FMulInt(count, FDiv(1, 10))))

\* analyze_sentiment with neutral = 1 - positive_count / words.
analyze_sentiment_neutral(text) ==
    LET p     == positive_count(text)
        n     == negative_count(text)
        denom == Max(Len(Split(text)), 1)
    IN  Return([sentiment  |-> IF p > n THEN "positive"
                               ELSE IF n > p THEN "negative" ELSE "neutral",
                confidence |-> IF p > n THEN DecidedConfidence(p)
                               ELSE IF n > p THEN DecidedConfidence(n)
                               ELSE FDiv(6, 10),
                scores     |-> [positive |-> FDiv(p, denom),
                                negative |-> FDiv(n, denom),
                                neutral  |-> FSub(FromInt(1), FDiv(p, denom))]])

analyze_sentiment(text) ==
    LET p     == positive_count(text)
        n     == negative_count(text)
        denom == Max(Len(Split(text)), 1)
    IN  Return([sentiment  |-> IF p > n THEN "positive"
                               ELSE IF n > p THEN "negative" ELSE "neutral",
                confidence |-> IF p > n THEN DecidedConfidence(p)
                               ELSE IF n > p THEN DecidedConfidence(n)
                               ELSE FDiv(6, 10),
                scores     |-> [positive |-> FDiv(p, denom),
                                negative |-> FDiv(n, denom),
                                neutral  |-> FSub(FromInt(1), FDiv(p + n, denom))]])

\* The keys of word_freq in insertion order: the words longer than 3
\* characters, each at its first occurrence.
WordFreqKeys(words) ==
    LET long == SelectSeq(words, LAMBDA w : Len(w) > 3)
    IN  SelectSeq([i \in 1..Len(long) |-> <<long[i], \A j \in 1..(i - 1) : long[j] /= long[i]>>],
                  LAMBDA e : e[2])

WordFreq(words, w) == Cardinality({i \in 1..Len(words) : words[i] = w})

\* A descending sort that reverses the order of equal keys.
SortedByFreq_reversed(keys, words) ==
    LET f(i)    == WordFreq(words, keys[i][1])
        rank(i) == Cardinality({j \in 1..Len(keys) :
                                  f(j) > f(i) \/ (f(j) = f(i) /\ j >= i)})
    IN  [r \in 1..Len(keys) |-> keys[CHOOSE i \in 1..Len(keys) : rank(i) = r][1]]

\* sorted(items, key=freq, reverse=True): descending, equal keys keep their order.
SortedByFreq(keys, words) ==
    LET f(i)    == WordFreq(words, keys[i][1])
        rank(i) == Cardinality({j \in 1..Len(keys) :
                                  f(j) > f(i) \/ (f(j) = f(i) /\ j <= i)})
    IN  [r \in 1..Len(keys) |-> keys[CHOOSE i \in 1..Len(keys) : rank(i) = r][1]]

DefaultMaxKeywords == 5

extract_keywords(text, max_keywords) ==
    LET words    == Split(Lower(text))
        sorted   == SortedByFreq(WordFreqKeys(words), words)
        keywords == SubSeq(sorted, 1, Min(max_keywords, Len(sorted)))
    IN  Return([keywords    |-> keywords,
                frequencies |-> [w \in {keywords[i] : i \in 1..Len(keywords)} |->
                                    WordFreq(words, w)]])

DefaultMaxLength == 100

Ellipsis == <<".", ".", ".">>

\* words[:max_length] joined, or the text itself.
Summarize(text, words, max_length) ==
    IF Len(words) <= max_length
    THEN text
    ELSE Join(SubSeq(words, 1, max_length), <<" ">>) \o Ellipsis

generate_summary(text, max_length) ==
    LET words   == Split(text)
        summary == Summarize(text, words, max_length)
    IN  IF Len(words) = 0
        THEN Raise(ZeroDivisionError)
        ELSE Return([summary           |-> summary,
                     original_length   |-> Len(words),
                     summary_length    |-> Len(Split(summary)),
                     compression_ratio |-> FDiv(Len(Split(summary)), Len(words))])

(***************************************************************************)
(* The request and response models.                                        *)
(***************************************************************************)
TextAnalysisRequest(text, analysis_type, options) ==
    [endpoint |-> "text", text |-> text, analysis_type |-> analysis_type,
     options |-> options]

ImageAnalysisRequest(image_url, image_data, analysis_type) ==
    [endpoint |-> "image", image_url |-> image_url, image_data |-> image_data,
     analysis_type |-> analysis_type]

MLModelRequest(model_name, input_data, parameters) ==
    [endpoint |-> "ml", model_name |-> model_name, input_data |-> input_data,
     parameters |-> parameters]

AnalysisResponse(rid, status, result, confidence, processing_time, error) ==
    [request_id |-> rid, status |-> status, result |-> result,
     confidence |-> confidence, processing_time |-> processing_time,
     error |-> error]

\* result.get("confidence")
GetConfidence(result) ==
    IF "confidence" \in DOMAIN result THEN Some(result.confidence) ELSE None

(***************************************************************************)
(* The bodies of the three try blocks, from the request to the value or    *)
(* the exception the handler ends with.                                    *)
(***************************************************************************)
TextSupported == {"sentiment", "keywords", "summary"}

\* analyze_text's try block with sentiment as the fallback of the dispatch.
analyze_text_try_fallback(req) ==
    IF req.analysis_type = "keywords"
    THEN extract_keywords(req.text, DefaultMaxKeywords)
    ELSE IF req.analysis_type = "summary"
         THEN generate_summary(req.text, DefaultMaxLength)
    ELSE analyze_sentiment(req.text)

analyze_text_try(req) ==
    IF req.analysis_type = "sentiment" THEN analyze_sentiment(req.text)
    ELSE IF req.analysis_type = "keywords"
         THEN extract_keywords(req.text, DefaultMaxKeywords)
    ELSE IF req.analysis_type = "summary"
         THEN generate_summary(req.text, DefaultMaxLength)
    ELSE Raise(HTTPException(400, <<"Unsupported analysis type: ", req.analysis_type>>))

analyze_image_try(req) ==
    IF req.analysis_type = "classification"
    THEN Return([predictions |->
                    << [label |-> "cat", confidence |-> FDiv(85, 100)],
                       [label |-> "animal", confidence |-> FDiv(92, 100)],
                       [label |-> "pet", confidence |-> FDiv(78, 100)] >>,
                 dominant_color |-> "#8B4513",
                 image_quality |-> "high"])
    ELSE Raise(HTTPException(400, <<"Unsupported analysis type: ", req.analysis_type>>))

\* ml_prediction's try block with the classifier as the fallback model.
ml_prediction_try_fallback(req) ==
    IF req.model_name = "regression"
    THEN Return([prediction |-> FDiv(425, 10),
                 feature_importance |-> [feature1 |-> FDiv(3, 10),
                                         feature2 |-> FDiv(25, 100),
                                         feature3 |-> FDiv(45, 100)]])
    ELSE Return([prediction |-> "class_A",
                 probabilities |-> [class_A |-> FDiv(7, 10),
                                    class_B |-> FDiv(2, 10),
                                    class_C |-> FDiv(1, 10)]])

ml_prediction_try(req) ==
    IF req.model_name = "regression"
    THEN Return([prediction |-> FDiv(425, 10),
                 feature_importance |-> [feature1 |-> FDiv(3, 10),
                                         feature2 |-> FDiv(25, 100),
                                         feature3 |-> FDiv(45, 100)]])
    ELSE IF req.model_name = "classification"
    THEN Return([prediction |-> "class_A",
                 probabilities |-> [class_A |-> FDiv(7, 10),
                                    class_B |-> FDiv(2, 10),
                                    class_C |-> FDiv(1, 10)]])
    ELSE Raise(HTTPException(400, <<"Unknown model: ", req.model_name>>))

\* The confidence argument of the completed response.
CompletedConfidence(req, result) ==
    IF req.endpoint = "text" THEN GetConfidence(result)
    ELSE IF req.endpoint = "image" THEN Some(FDiv(85, 100))
    ELSE Some(FDiv(8, 10))

\* The logger.error line of the except block.
ErrorLine(req, e) ==
    << IF req.endpoint = "text" THEN "Error processing text analysis: "
       ELSE IF req.endpoint = "image" THEN "Error processing image analysis: "
       ELSE "Error processing ML prediction: " >> \o StrException(e)

\* A failed response that also reports the time spent.
ResponseFor_partial(req, rid, started, outcome) ==
    IF outcome.raised
    THEN AnalysisResponse(rid, "failed", None, None, Some(now - started),
                          Some(StrException(outcome.exc)))
    ELSE AnalysisResponse(rid, "completed", Some(outcome.value),
                          CompletedConfidence(req, outcome.value),
                          Some(now - started), None)

\* The response built from the outcome of the try block.
ResponseFor(req, rid, started, outcome) ==
    IF outcome.raised
    THEN AnalysisResponse(rid, "failed", None, None, None,
                          Some(StrException(outcome.exc)))
    ELSE AnalysisResponse(rid, "completed", Some(outcome.value),
                          CompletedConfidence(req, outcome.value),
                          Some(now - started), None)

(***************************************************************************)
(* The handlers.  A handler runs from its call to its first await, and     *)
(* from the end of that await to its return.                               *)
(***************************************************************************)
Requests == 1..MaxRequests

\* The request kept in one place for all handlers: the last one that arrived.
RequestOf_shared(r) ==
    request[CHOOSE q \in Requests :
                pc[q] /= "idle" /\ \A p \in Requests : p > q => pc[p] = "idle"][1]

\* The request object of the handler running as r.
RequestOf(r) == request[r][1]

\* The handler of r returns: the except block logs, and one response is sent.
Finish(r, req, rid, started, outcome) ==
    /\ responses' = [responses EXCEPT ![r] = Append(@, ResponseFor(req, rid, started, outcome))]
    /\ log' = IF outcome.raised THEN Append(log, ErrorLine(req, outcome.exc)) ELSE log
    /\ pc' = [pc EXCEPT ![r] = "done"]

\* The handler is entered: request_id and start_time are taken from the clock.
\* Requests are numbered in the order of their arrival.
Enter(r, req, prefix) ==
    /\ pc[r] = "idle"
    /\ \A q \in 1..(r - 1) : pc[q] /= "idle"
    /\ request' = [request EXCEPT ![r] = Some(req)]
    /\ request_id' = [request_id EXCEPT ![r] = Some(<<prefix, now>>)]
    /\ start_time' = [start_time EXCEPT ![r] = Some(now)]

\* POST /api/v1/analyze/text, up to the await of the selected computation;
\* an unsupported analysis_type raises before any await.
analyze_text_call(r, req) ==
    /\ Enter(r, req, "text_")
    /\ IF req.analysis_type \in TextSupported
       THEN /\ pc' = [pc EXCEPT ![r] = "sleep"]
            /\ UNCHANGED <<responses, log>>
       ELSE Finish(r, req, <<"text_", now>>, now, analyze_text_try(req))
    /\ UNCHANGED <<now, served>>

\* POST /api/v1/analyze/image, up to await asyncio.sleep(1.0)
analyze_image_call(r, req) ==
    /\ Enter(r, req, "image_")
    /\ pc' = [pc EXCEPT ![r] = "sleep"]
    /\ UNCHANGED <<now, responses, log, served>>

\* POST /api/v1/ml/predict, up to await asyncio.sleep(0.7)
ml_prediction_call(r, req) ==
    /\ Enter(r, req, "ml_")
    /\ pc' = [pc EXCEPT ![r] = "sleep"]
    /\ UNCHANGED <<now, responses, log, served>>

Resume(r, endpoint, outcome) ==
    /\ pc[r] = "sleep"
    /\ RequestOf(r).endpoint = endpoint
    /\ Finish(r, RequestOf(r), request_id[r][1], start_time[r][1], outcome)
    /\ UNCHANGED <<now, request, request_id, start_time, served>>

analyze_text_resume(r) ==
    Resume(r, "text", analyze_text_try(RequestOf(r)))

analyze_image_resume(r) ==
    Resume(r, "image", analyze_image_try(RequestOf(r)))

ml_prediction_resume(r) ==
    Resume(r, "ml", ml_prediction_try(RequestOf(r)))

Catalog ==
    << [name |-> "sentiment_analyzer", type |-> "text_analysis",
        description |-> "Analyzes sentiment in text"],
       [name |-> "keyword_extractor", type |-> "text_analysis",
        description |-> "Extracts keywords from text"],
       [name |-> "image_classifier", type |-> "computer_vision",
        description |-> "Classifies images"],
       [name |-> "regression_model", type |-> "regression",
        description |-> "Predicts continuous values"],
       [name |-> "classification_model", type |-> "classification",
        description |-> "Predicts categorical values"] >>

\* A catalog that lists only the models that have not failed a request.
list_models_registry ==
    [models |-> SelectSeq(Catalog, LAMBDA m :
        \A r \in Requests :
            (pc[r] = "done" /\ responses[r][1].status = "failed") =>
                \/ request[r][1].endpoint = "text" /\ m.type /= "text_analysis"
                \/ request[r][1].endpoint = "image" /\ m.type /= "computer_vision"
                \/ request[r][1].endpoint = "ml"
                      /\ m.type \notin {"regression", "classification"})]

\* GET /api/v1/models
list_models == [models |-> Catalog]

ListModels ==
    /\ served' = Some(list_models)
    /\ UNCHANGED <<now, pc, request, request_id, start_time, responses, log>>

\* The wall clock advances.
Tick ==
    /\ now < MaxClock
    /\ now' = now + 1
    /\ UNCHANGED <<pc, request, request_id, start_time, responses, log, served>>

Init ==
    /\ now = 0
    /\ pc = [r \in Requests |-> "idle"]
    /\ request = [r \in Requests |-> None]
    /\ request_id = [r \in Requests |-> None]
    /\ start_time = [r \in Requests |-> None]
    /\ responses = [r \in Requests |-> <<>>]
    /\ log = <<>>
    /\ served = None

(***************************************************************************)
(* The requests the clients send.                                          *)
(***************************************************************************)
w_good == <<"g","o","o","d">>
w_Bad == <<"B","a","d">>
w_Lovely == <<"L","o","v","e","l","y">>
w_it == <<"i","t">>
w_great_good == <<"g","r","e","a","t",",","g","o","o","d">>
w_love == <<"l","o","v","e">>
w_hate == <<"h","a","t","e">>
w_awful == <<"a","w","f","u","l">>
w_terrible == <<"t","e","r","r","i","b","l","e">>
w_bad == <<"b","a","d">>
w_this == <<"t","h","i","s">>
w_worst == <<"w","o","r","s","t">>
w_poor == <<"p","o","o","r">>

Vocabulary == {w_good, w_Bad, w_Lovely, w_it, w_great_good}

Separators == {<<" ">>, <<" ", "\n">>}

Corpus == <<w_love, w_hate, w_awful, w_terrible, w_bad, w_this, w_awful,
            w_worst, w_poor, w_hate>>

RECURSIVE WordSeqs(_)
WordSeqs(n) ==
    IF n = 0 THEN {<<>>}
    ELSE LET shorter == WordSeqs(n - 1)
         IN  shorter \cup {Append(ws, w) : ws \in {x \in shorter : Len(x) = n - 1},
                                            w \in Vocabulary}

\* Up to MaxWords words of the vocabulary, around and between separators.
ShortTexts ==
    {Join(ws, sep) : ws \in WordSeqs(MaxWords), sep \in Separators}
        \cup {sep \o w \o sep : w \in Vocabulary \cup {<<>>}, sep \in Separators}

\* The windows of the corpus.
CorpusTexts ==
    {Join(SubSeq(Corpus, i, j), <<" ">>) : i \in 1..Len(Corpus), j \in 1..Len(Corpus)}

\* One word repeated about DefaultMaxLength times.
LongTexts ==
    {Join([i \in 1..n |-> w], sep) :
        n \in (DefaultMaxLength - LongSlack)..(DefaultMaxLength + LongSlack),
        w \in {<<"a">>, w_good}, sep \in Separators}

Texts == ShortTexts \cup CorpusTexts \cup LongTexts

SmallTexts == {<<>>, Join(<<w_good, w_Bad, w_terrible>>, <<" ">>)}

TextAnalysisTypes == TextSupported \cup {"classification", "Sentiment"}

TextRequests(texts, types) ==
    {TextAnalysisRequest(t, a, None) : t \in texts, a \in types}

ImageRequests(urls, datas, types) ==
    {ImageAnalysisRequest(u, d, a) : u \in urls, d \in datas, a \in types}

MLRequests(names, inputs, params) ==
    {MLModelRequest(m, i, p) : m \in names, i \in inputs, p \in params}

ImageUrls == {None, Some("http://localhost/cat.png")}
ImageData == {None, Some("aGk=")}
ImageAnalysisTypes == {"classification", "detection", "sentiment"}
ModelNames == {"regression", "classification", "unknown_model", "Regression"}
InputData == {[feature1 |-> 0], [feature1 |-> 7, feature2 |-> 1]}
Parameters == {None, Some([threshold |-> 1])}

(***************************************************************************)
(* Spec: requests in flight together, interleaved at their awaits.         *)
(***************************************************************************)
Next ==
    \/ \E r \in Requests :
          \E req \in TextRequests(SmallTexts, {"summary", "classification"})
                        \cup TextRequests(SmallTexts \ {<<>>}, {"sentiment"}) :
              analyze_text_call(r, req)
    \/ \E r \in Requests :
          \E req \in ImageRequests({None}, {None}, {"classification", "detection"}) :
              analyze_image_call(r, req)
    \/ \E r \in Requests :
          \E req \in MLRequests({"regression", "unknown_model"},
                                {[feature1 |-> 0]}, {None}) :
              ml_prediction_call(r, req)
    \/ \E r \in Requests : analyze_text_resume(r)
    \/ \E r \in Requests : analyze_image_resume(r)
    \/ \E r \in Requests : ml_prediction_resume(r)
    \/ ListModels
    \/ Tick

Spec == Init /\ [][Next]_vars

(***************************************************************************)
(* SpecSeq: one request handled alone, over the larger sets of inputs.     *)
(***************************************************************************)
NextSeq ==
    \/ \E req \in TextRequests(Texts, TextAnalysisTypes) : analyze_text_call(1, req)
    \/ \E req \in ImageRequests(ImageUrls, ImageData, ImageAnalysisTypes) : analyze_image_call(1, req)
    \/ \E req \in MLRequests(ModelNames, InputData, Parameters) : ml_prediction_call(1, req)
    \/ analyze_text_resume(1)
    \/ analyze_image_resume(1)
    \/ ml_prediction_resume(1)
    \/ Tick

SpecSeq == Init /\ [][NextSeq]_vars

(***************************************************************************)
(* The properties.                                                         *)
(***************************************************************************)
Done(r) == pc[r] = "done"

\* The body request r was sent with, and the response it got.
Body(r) == request[r][1]
Resp(r) == responses[r][1]

IsText(r, analysis_type) ==
    /\ Done(r)
    /\ Body(r).endpoint = "text"
    /\ Body(r).analysis_type = analysis_type

Unsupported(req) ==
    \/ req.endpoint = "text" /\ req.analysis_type \notin {"sentiment", "keywords", "summary"}
    \/ req.endpoint = "image" /\ req.analysis_type /= "classification"

\* A string given in pieces is empty when all its pieces are.
NonEmpty(pieces) == \E i \in 1..Len(pieces) : pieces[i] /= ""

\* C1: a request to the text endpoint whose analysis_type is not sentiment,
\* keywords or summary, or to the image endpoint whose analysis_type is not
\* classification, ends with a response of status "failed" and a non-empty
\* error, never with status "completed".
C1_UnsupportedTypeFails ==
    \A r \in Requests :
        (Done(r) /\ Unsupported(Body(r))) =>
            /\ Len(responses[r]) = 1
            /\ Resp(r).status = "failed"
            /\ Resp(r).status /= "completed"
            /\ Len(Resp(r).error) = 1
            /\ NonEmpty(Resp(r).error[1])

C1_Witness ==
    \E r \in Requests :
        /\ Done(r)
        /\ Body(r).endpoint = "image"
        /\ Body(r).analysis_type = "detection"
        /\ Resp(r).status = "failed"

\* C2: a summary request with W words: for W <= 100 (W = 0 included) the
\* summary is the text verbatim; for W > 100 it is the first 100 words joined
\* by single spaces and followed by "...", summary_length is 100 and
\* compression_ratio = summary_length / W < 1.
C2_SummaryAsClaimed ==
    \A r \in Requests :
        IsText(r, "summary") =>
            LET text  == Body(r).text
                words == Split(text)
                W     == Len(words)
            IN  /\ Resp(r).status = "completed"
                /\ W <= 100 => Resp(r).result[1].summary = text
                /\ W > 100 =>
                    /\ Resp(r).result[1].summary =
                          Join(SubSeq(words, 1, 100), <<" ">>) \o <<".", ".", ".">>
                    /\ Resp(r).result[1].summary_length = 100
                    /\ Resp(r).result[1].compression_ratio = FDiv(100, W)
                    /\ FLess(Resp(r).result[1].compression_ratio, FromInt(1))

\* The number of places of s where w occurs.
Occurrences(s, w) ==
    Cardinality({i \in 1..(Len(s) - Len(w) + 1) : SubSeq(s, i, i + Len(w) - 1) = w})

TotalOccurrences(word_list, s) ==
    LET RECURSIVE upto(_)
        upto(k) == IF k = 0 THEN 0 ELSE upto(k - 1) + Occurrences(s, word_list[k])
    IN  upto(Len(word_list))

\* C3: the positive and the negative count are the numbers of occurrences,
\* ignoring case, of the six positive and the six negative words in the text;
\* the label is positive, negative or neutral as the larger count or a tie
\* says; confidence is min(0.9, 0.5 + 0.1 x winning count), 0.6 for a tie,
\* and never above 0.9.
C3_SentimentAsClaimed ==
    \A r \in Requests :
        IsText(r, "sentiment") =>
            LET lower == Lower(Body(r).text)
                P == TotalOccurrences(positive_words, lower)
                N == TotalOccurrences(negative_words, lower)
                result == Resp(r).result[1]
            IN  /\ Resp(r).status = "completed"
                /\ result.sentiment = IF P > N THEN "positive"
                                      ELSE IF N > P THEN "negative" ELSE "neutral"
                /\ result.confidence = IF P = N THEN FDiv(6, 10)
                                       ELSE FDiv(Min(9, 5 + Max(P, N)), 10)
                /\ FLeq(result.confidence, FDiv(9, 10))

\* positive + negative + neutral, as Python adds them.
ScoreSum(scores) == FAdd(FAdd(scores.positive, scores.negative), scores.neutral)

\* C4 as claimed: for a non-empty text the three score fractions sum to
\* exactly 1.
C4_ScoresSumExactlyOne ==
    \A r \in Requests :
        (IsText(r, "sentiment") /\ Body(r).text /= <<>>) =>
            ScoreSum(Resp(r).result[1].scores) = FromInt(1)

\* |x - y| <= 2^-40
Close(x, y) ==
    LET d == FSub(x, y)
    IN  FLeq(Float(FALSE, d.mag), Float(FALSE, PowerOfTwo(FracBits - 40)))

\* C4, amended: for a non-empty text the three score fractions sum to 1
\* within floating tolerance (the sum differs from 1 by at most 2^-40).
C4_ScoresSumToOne ==
    \A r \in Requests :
        (IsText(r, "sentiment") /\ Body(r).text /= <<>>) =>
            Close(ScoreSum(Resp(r).result[1].scores), FromInt(1))

C4_Witness ==
    \E r \in Requests :
        /\ IsText(r, "sentiment")
        /\ Body(r).text /= <<>>
        /\ Resp(r).status = "completed"
        /\ ScoreSum(Resp(r).result[1].scores) /= FromInt(1)

\* C5: keyword extraction returns at most 5 keywords; each is a lowercased
\* whitespace token longer than 3 characters; they are in non-increasing
\* order of frequency, ties in first-seen order; and frequencies gives, for
\* exactly the returned keywords, the number of their occurrences among the
\* lowercased tokens.
C5_Keywords ==
    \A r \in Requests :
        IsText(r, "keywords") =>
            LET tokens   == Split(Lower(Body(r).text))
                count(w) == Cardinality({i \in 1..Len(tokens) : tokens[i] = w})
                first(w) == CHOOSE i \in 1..Len(tokens) :
                                tokens[i] = w /\ \A j \in 1..(i - 1) : tokens[j] /= w
                keywords == Resp(r).result[1].keywords
                freqs    == Resp(r).result[1].frequencies
            IN  /\ Resp(r).status = "completed"
                /\ Len(keywords) <= 5
                /\ \A i \in 1..Len(keywords) :
                      /\ \E t \in 1..Len(tokens) : tokens[t] = keywords[i]
                      /\ Len(keywords[i]) > 3
                /\ \A i, j \in 1..Len(keywords) :
                      i < j =>
                          \/ count(keywords[i]) > count(keywords[j])
                          \/ /\ count(keywords[i]) = count(keywords[j])
                             /\ first(keywords[i]) < first(keywords[j])
                /\ DOMAIN freqs = {keywords[i] : i \in 1..Len(keywords)}
                /\ \A w \in DOMAIN freqs : freqs[w] = count(w)

C5_Witness ==
    \E r \in Requests :
        /\ IsText(r, "keywords")
        /\ Resp(r).status = "completed"
        /\ LET tokens   == Split(Lower(Body(r).text))
               keywords == Resp(r).result[1].keywords
               freqs    == Resp(r).result[1].frequencies
           IN  /\ Len(keywords) = 5
               /\ Cardinality({tokens[i] : i \in {t \in 1..Len(tokens) : Len(tokens[t]) > 3}}) > 5
               /\ freqs[keywords[1]] = 2
               /\ freqs[keywords[2]] = 2
               /\ freqs[keywords[5]] = 1
               /\ \E i \in 1..Len(tokens) : Len(tokens[i]) <= 3

IsML(r, model_name) ==
    /\ Done(r)
    /\ Body(r).endpoint = "ml"
    /\ Body(r).model_name = model_name

\* C6: whatever input_data and parameters are, model_name "regression" gives
\* a completed response with prediction 42.5 and feature importances 0.3,
\* 0.25 and 0.45; "classification" gives a completed response with
\* prediction "class_A" and class probabilities 0.7, 0.2 and 0.1; any other
\* model_name gives a failed response whose error says "Unknown model" and
\* names the model.
C6_MLPrediction ==
    \A r \in Requests :
        (Done(r) /\ Body(r).endpoint = "ml") =>
            /\ Len(responses[r]) = 1
            /\ IsML(r, "regression") =>
                  /\ Resp(r).status = "completed"
                  /\ Resp(r).result[1].prediction = FDiv(85, 2)
                  /\ Resp(r).result[1].feature_importance =
                        [feature1 |-> FDiv(3, 10), feature2 |-> FDiv(1, 4),
                         feature3 |-> FDiv(9, 20)]
            /\ IsML(r, "classification") =>
                  /\ Resp(r).status = "completed"
                  /\ Resp(r).result[1].prediction = "class_A"
                  /\ Resp(r).result[1].probabilities =
                        [class_A |-> FDiv(7, 10), class_B |-> FDiv(1, 5),
                         class_C |-> FDiv(1, 10)]
            /\ Body(r).model_name \notin {"regression", "classification"} =>
                  /\ Resp(r).status = "failed"
                  /\ Len(Resp(r).error) = 1
                  /\ \E i \in 1..Len(Resp(r).error[1]) :
                        /\ Resp(r).error[1][i] = "Unknown model: "
                        /\ i < Len(Resp(r).error[1])
                        /\ Resp(r).error[1][i + 1] = Body(r).model_name

C6_Witness ==
    \E r \in Requests :
        /\ IsML(r, "unknown_model")
        /\ Body(r).input_data = [feature1 |-> 7, feature2 |-> 1]
        /\ Body(r).parameters /= None
        /\ Resp(r).status = "failed"

Prefix(endpoint) ==
    IF endpoint = "text" THEN "text_" ELSE IF endpoint = "image" THEN "image_" ELSE "ml_"

\* C7: a response of a POST handler has status "completed" or "failed"; a
\* completed one carries a result and a processing_time and no error; a
\* failed one carries the error message and the request id generated for its
\* request, and no result, confidence or processing_time; a request gets no
\* response before its handler returns and exactly one when it has.
C7_ResponseShape ==
    \A r \in Requests :
        /\ Len(responses[r]) = IF Done(r) THEN 1 ELSE 0
        /\ \A i \in 1..Len(responses[r]) :
              LET resp == responses[r][i]
              IN  /\ resp.status \in {"completed", "failed"}
                  /\ resp.request_id = <<Prefix(Body(r).endpoint), start_time[r][1]>>
                  /\ resp.status = "completed" =>
                        /\ Len(resp.result) = 1
                        /\ Len(resp.processing_time) = 1
                        /\ resp.error = None
                  /\ resp.status = "failed" =>
                        /\ Len(resp.error) = 1
                        /\ NonEmpty(resp.error[1])
                        /\ resp.result = None
                        /\ resp.confidence = None
                        /\ resp.processing_time = None

C7_Witness ==
    \E r, q \in Requests :
        /\ Done(r) /\ Resp(r).status = "failed"
        /\ Body(r).endpoint = "text" /\ Body(r).analysis_type = "summary"
        /\ Done(q) /\ Resp(q).status = "completed"
        /\ Resp(q).processing_time = Some(1)

\* C8: whatever requests came before, GET /api/v1/models returns the same
\* five descriptors, each with a name, a type and a description, in the same
\* order.
C8_FixedCatalog ==
    served /= None =>
        LET models == served[1].models
        IN  /\ DOMAIN served[1] = {"models"}
            /\ Len(models) = 5
            /\ [i \in 1..5 |-> models[i].name] =
                  <<"sentiment_analyzer", "keyword_extractor", "image_classifier",
                    "regression_model", "classification_model">>
            /\ [i \in 1..5 |-> models[i].type] =
                  <<"text_analysis", "text_analysis", "computer_vision",
                    "regression", "classification">>
            /\ \A i \in 1..5 : DOMAIN models[i] = {"name", "type", "description"}

C8_Witness ==
    /\ served /= None
    /\ \E r, q \in Requests :
          /\ Done(r) /\ Resp(r).status = "failed"
          /\ Done(q) /\ Resp(q).status = "completed"

\* What a request yields when it is handled alone.
Alone(req) ==
    LET outcome == IF req.endpoint = "text" THEN analyze_text_try(req)
                   ELSE IF req.endpoint = "image" THEN analyze_image_try(req)
                   ELSE ml_prediction_try(req)
    IN  IF outcome.raised
        THEN [status |-> "failed", result |-> None, confidence |-> None,
              error |-> Some(StrException(outcome.exc))]
        ELSE [status |-> "completed", result |-> Some(outcome.value),
              confidence |-> CompletedConfidence(req, outcome.value),
              error |-> None]

Yield(resp) ==
    [status |-> resp.status, result |-> resp.result, confidence |-> resp.confidence,
     error |-> resp.error]

\* C9: however the handlers of the requests in flight interleave at their
\* awaits, the status, result, confidence and error of each response are
\* those its request yields when handled alone, and two requests with the
\* same body get the same ones.
C9_Isolation ==
    \A r \in Requests :
        Done(r) =>
            /\ Yield(Resp(r)) = Alone(Body(r))
            /\ \A q \in Requests :
                  (Done(q) /\ Body(q) = Body(r)) => Yield(Resp(q)) = Yield(Resp(r))

C9_Witness ==
    \E r, q \in Requests :
        /\ r < q
        /\ pc[r] = "sleep"
        /\ Done(q)
        /\ Body(r).endpoint = "text" /\ Body(q).endpoint = "text"
        /\ Body(r) /= Body(q)
        /\ Resp(q).status = "completed"

\* C10: each of the three score fractions of a sentiment result lies in
\* [0, 1].
C10_ScoresNormalized ==
    \A r \in Requests :
        IsText(r, "sentiment") =>
            LET scores == Resp(r).result[1].scores
            IN  \A x \in {scores.positive, scores.negative, scores.neutral} :
                    FLeq(FromInt(0), x) /\ FLeq(x, FromInt(1))

====
